---- MODULE Spec2Model ----
(***************************************************************************)
(* Model of the data-retrieval scripts of TR-Platform:                     *)
(*   src/stab.py             fetch_stablecoin_historical_data,             *)
(*                           validate_csv_structure                        *)
(*   src/dune/q.py           the fresh-execution path of the Dune script   *)
(*   src/dune/dune_modular.py  execute_query, get_execution_status,        *)
(*                           get_execution_results                         *)
(* Durations are in deciseconds (0.1 s) so that 0.5 s is an integer.       *)
(* Amounts read from the API are in mills (0.001 USD); amounts stored in a *)
(* record are in cents (0.01 USD), i.e. rounded to 2 decimals.             *)
(* Strings that the code orders (dates, symbols) are sequences of ASCII    *)
(* codes.                                                                  *)
(***************************************************************************)
EXTENDS Integers, Sequences, FiniteSets, TLC

\* ------------------------------------------------------------------ bounds
MaxEntities == 2
MaxPoints == 2
MaxPolls == 3

\* ------------------------------------------------------- program constants
max_retries == 3
RateLimitSleep == 100
JitterLo == 10
JitterHi == 30
DefaultDelay == 5
MainDelay == 20
PollInterval == 50

required_columns == {"id", "name", "symbol"}

VARIABLES
  \* ---- fetch_stablecoin_historical_data (src/stab.py)
  csv,        \* the input file: [exists, cols, rows]
  delay_between_requests,      \* delay_between_requests
  tz,         \* the local time zone datetime.fromtimestamp converts to
  remote,     \* the charting endpoint's data: entity id -> list of points
  faults,     \* the kinds of response the network shows in this run
  pc,         \* position of fetch_stablecoin_historical_data
  idx,        \* 1-based position of the row the for loop is at
  attempt,    \* the retry loop's attempt (0-based)
  data,       \* the local variable data (the last parsed JSON body)
  all_historical_data,        \* all_historical_data
  output,     \* the output CSV: [written, rows]
  error,      \* the exception re-raised to the caller ("" if none)
  stat,       \* history per row: requests issued, outcome, delay_between_requests sleeps
  lastSleep,  \* history: the most recent time.sleep call
  \* ---- validate_csv_structure (src/stab.py)
  vfile, vpc, vret,
  \* ---- fresh-execution path (src/dune/q.py, src/dune/dune_modular.py)
  USE_LATEST_RESULT, qpc, job, status, polls, slept, query_results, qerror

fetchVars == <<csv, delay_between_requests, tz, remote, faults, pc, idx,
               attempt, data, all_historical_data, output, error, stat,
               lastSleep>>
validateVars == <<vfile, vpc, vret>>
duneVars == <<USE_LATEST_RESULT, qpc, job, status, polls, slept,
              query_results, qerror>>
vars == <<csv, delay_between_requests, tz, remote, faults, pc, idx,
          attempt, data, all_historical_data, output, error, stat,
          lastSleep, vfile, vpc, vret,
          USE_LATEST_RESULT, qpc, job, status, polls, slept, query_results,
          qerror>>

\* ------------------------------------------------------------ JSON values
J(t, v) == [t |-> t, v |-> v]
Absent == J("absent", 0)
Null == J("null", 0)
Num(m) == J("num", m)
\* the value under totalCirculatingUSD / totalBridgedToUSD
Holder(t, peg) == [t |-> t, peg |-> peg]
NoHolder == Holder("absent", Absent)
NullHolder == Holder("null", Absent)
EmptyMap == Holder("emptymap", Absent)
Scalar == Holder("scalar", Absent)
Map(peg) == Holder("map", peg)
Point(d, c, b) == [date |-> d, circ |-> c, brid |-> b]

\* ---------------------------------------------------------------- strings
\* ASCII codes of the characters of the strings the code orders
Digit(d) == 48 + d
Dash == 45
Space == 32
Colon == 58

\* str(n) for n >= 0: decimal digits, no padding
RECURSIVE DecDigits(_)
DecDigits(n) ==
  IF n < 10 THEN <<Digit(n)>> ELSE DecDigits(n \div 10) \o <<Digit(n % 10)>>

\* %m, %d, %H, %M, %S: two digits, zero padded
Pad2(n) == <<Digit((n \div 10) % 10), Digit(n % 10)>>

\* Python's str comparison: code point by code point, a proper prefix first
RECURSIVE StrLess(_, _)
StrLess(a, b) ==
  IF b = <<>> THEN FALSE
  ELSE IF a = <<>> THEN TRUE
  ELSE IF Head(a) # Head(b) THEN Head(a) < Head(b)
  ELSE StrLess(Tail(a), Tail(b))

\* ------------------------------------------------------- local time, dates
\* The instant at which America/New_York left daylight time in 2024
\* (2024-11-03 06:00:00 UTC); the zone's offsets are those around it.
FallBack2024 == 1730613600
UtcOffset(zone, ts) ==
  IF zone = "America/New_York"
    THEN (IF ts < FallBack2024 THEN -14400 ELSE -18000)
    ELSE 0

\* civil date of a day number (days since 1970-01-01), proleptic Gregorian
CivilFromDays(z0) ==
  LET z == z0 + 719468
      era == z \div 146097
      doe == z - era * 146097
      yoe == (doe - doe \div 1460 + doe \div 36524 - doe \div 146096) \div 365
      doy == doe - (365 * yoe + yoe \div 4 - yoe \div 100)
      mp == (5 * doy + 2) \div 153
      d == doy - (153 * mp + 2) \div 5 + 1
      m == IF mp < 10 THEN mp + 3 ELSE mp - 9
      y == yoe + era * 400 + (IF m <= 2 THEN 1 ELSE 0)
  IN [year |-> y, month |-> m, day |-> d]

\* datetime.fromtimestamp(timestamp): the naive local date and time
FromTimestamp(ts, zone) ==
  LET secs == ts + UtcOffset(zone, ts)
      sod == secs % 86400
      c == CivilFromDays(secs \div 86400)
  IN [year |-> c.year, month |-> c.month, day |-> c.day,
      hour |-> sod \div 3600, minute |-> (sod % 3600) \div 60,
      second |-> sod % 60]

\* date.strftime('%Y-%m-%d %H:%M:%S')
Strftime(d) ==
  DecDigits(d.year) \o <<Dash>> \o Pad2(d.month) \o <<Dash>> \o Pad2(d.day)
    \o <<Space>> \o Pad2(d.hour) \o <<Colon>> \o Pad2(d.minute)
    \o <<Colon>> \o Pad2(d.second)

\* ------------------------------------------------ normalization of a point
\* a stored amount: cents, or a float that is not a number of cents
Cents(c) == [t |-> "num", v |-> c]
NaN == [t |-> "nan", v |-> 0]
Inf == [t |-> "inf", v |-> 0]

\* round(float(x), 2) of an amount of m mills, in cents.  The amounts of
\* the model are never half way between two cents: such a decimal is no
\* binary float, and the float next to it decides its rounding.
Round2(m) == (m + 5) \div 10

\* point['date'] then int(...) then datetime.fromtimestamp(...):
\* "" when a date comes out, else the exception
DateError(d) ==
  CASE d.t = "absent" -> "KeyError"
    [] d.t = "null" -> "TypeError"
    [] d.t = "str" -> "ValueError"
    [] d.t = "int_y10k" -> "ValueError"
    [] d.t = "int_huge" -> "OverflowError"
    [] OTHER -> ""

\* the fallback of an amount that is absent
Fallback == Num(0)

\* circulating_usd = 0; if key in point and point[key]:
\*     circulating_usd = point[key].get('peggedUSD', 0)
GetError(h) == IF h.t = "scalar" THEN "AttributeError" ELSE ""
Extract(h) ==
  IF h.t = "map"
    THEN (IF h.peg.t = "absent" THEN Fallback ELSE h.peg)
    ELSE Fallback

\* round(float(x), 2) if x else 0.00
FloatError(x) ==
  CASE x.t = "str" -> "ValueError"
    [] x.t = "list" -> "TypeError"
    [] OTHER -> ""
Truthy(x) == ~(x.t = "null" \/ (x.t = "num" /\ x.v = 0))
ConvertMut(x) ==
  CASE ~Truthy(x) -> Cents(0)
    [] x.t = "nan" -> NaN
    [] x.t = "inf" -> Inf
    [] OTHER -> Cents(x.v \div 10)
Convert(x) ==
  CASE ~Truthy(x) -> Cents(0)
    [] x.t = "nan" -> NaN
    [] x.t = "inf" -> Inf
    [] OTHER -> Cents(Round2(x.v))

\* the exceptions the loop body catches per point
Caught == {"KeyError", "ValueError", "TypeError"}

\* One pass of the body of "for point in data": the exception it ends in
\* ("" when the record is appended).
PointError(p) ==
  IF DateError(p.date) # "" THEN DateError(p.date)
  ELSE IF GetError(p.circ) # "" THEN GetError(p.circ)
  ELSE IF GetError(p.brid) # "" THEN GetError(p.brid)
  ELSE IF FloatError(Extract(p.circ)) # "" THEN FloatError(Extract(p.circ))
  ELSE FloatError(Extract(p.brid))

\* the record of a point; src_row and src_pt are history: the row whose
\* request returned the payload, and the point's place in it.  The
\* record's created_at (datetime.now() as text) is left out: nothing
\* reads it before the file is written.
Record(p, ent, zone, row, k) ==
  [stablecoin_id |-> ent.id,
   stablecoin_name |-> ent.name,
   stablecoin_symbol |-> ent.symbol,
   date |-> Strftime(FromTimestamp(p.date.v, zone)),
   circulating_usd |-> Convert(Extract(p.circ)),
   bridged_usd |-> Convert(Extract(p.brid)),
   src_row |-> row,
   src_pt |-> k]

\* "for point in data": the accumulator after the points from k on, and
\* the exception that left the loop ("" when it ran to its end)
RECURSIVE ProcessPoints(_, _, _, _, _, _)
ProcessPoints(pts, k, ent, zone, row, sofar) ==
  IF k > Len(pts) THEN [all_historical_data |-> sofar, exc |-> ""]
  ELSE LET e == PointError(pts[k])
       IN IF e = ""
            THEN ProcessPoints(pts, k + 1, ent, zone, row,
                               Append(sofar, Record(pts[k], ent, zone, row, k)))
            ELSE IF e \in Caught
              THEN ProcessPoints(pts, k + 1, ent, zone, row, sofar)
              ELSE [all_historical_data |-> sofar, exc |-> e]

\* ----------------------------------------------------------------- sorting
SymCodes(s) ==
  CASE s = "DAI" -> <<68, 65, 73>>
    [] s = "USDT" -> <<85, 83, 68, 84>>
    [] s = "USDC" -> <<85, 83, 68, 67>>
    [] OTHER -> <<>>

\* the order of sort_values(['date', 'stablecoin_symbol']) on two rows
RowBeforeMut(a, b) ==
  \/ StrLess(SymCodes(a.stablecoin_symbol), SymCodes(b.stablecoin_symbol))
  \/ /\ a.stablecoin_symbol = b.stablecoin_symbol
     /\ StrLess(a.date, b.date)
RowBefore(a, b) ==
  \/ StrLess(a.date, b.date)
  \/ /\ a.date = b.date
     /\ StrLess(SymCodes(a.stablecoin_symbol), SymCodes(b.stablecoin_symbol))

\* r put into the sorted list s, after the rows it does not precede
RECURSIVE Insert(_, _)
Insert(r, s) ==
  IF s = <<>> THEN <<r>>
  ELSE IF RowBefore(r, Head(s)) THEN <<r>> \o s
  ELSE <<Head(s)>> \o Insert(r, Tail(s))

\* historical_df.sort_values(['date', 'stablecoin_symbol']): a stable sort
RECURSIVE SortValues(_)
SortValues(s) ==
  IF s = <<>> THEN <<>>
  ELSE Insert(s[Len(s)], SortValues(SubSeq(s, 1, Len(s) - 1)))

\* ------------------------------------------- fetch_stablecoin_historical_data
\* the rows of the input file
Entities ==
  {[id |-> 1, name |-> "Tether", symbol |-> "USDT"],
   [id |-> 2, name |-> "Dai", symbol |-> "DAI"]}
EntityIds == {e.id : e \in Entities}

RECURSIVE SeqsUpTo(_, _)
SeqsUpTo(S, n) ==
  IF n = 0 THEN {<<>>}
  ELSE LET shorter == SeqsUpTo(S, n - 1)
       IN shorter \cup {Append(q, x) : q \in {r \in shorter : Len(r) = n - 1}, x \in S}

\* what one requests.get(url, timeout=30) can come to
ResponseKinds == {"200", "200dict", "200bad", "429", "500", "neterr"}

\* random.uniform(1, 3), in deciseconds: the ends of the range
JitterSamples == {JitterLo, JitterHi - 1}

NoSleep == [kind |-> "none", ds |-> 0]
Unbound == [kind |-> "unbound", from |-> 0, pts |-> <<>>]
NoOutput == [written |-> FALSE, rows |-> <<>>]
NewStat == [reqs |-> 0, all500 |-> TRUE, rl1 |-> FALSE, okAt |-> 0,
            outcome |-> "pending", delays |-> 0]

\* missing_columns = [col for col in required_columns
\*                    if col not in stablecoins_df.columns]
MissingColumnsMut(cols) == {}
MissingColumns(cols) == required_columns \ cols

\* the value of data after response.json() of a response of this kind
Parsed(kind, row, id, old) ==
  CASE kind = "200" -> [kind |-> "list", from |-> row, pts |-> remote[id]]
    [] kind = "200dict" -> [kind |-> "other", from |-> row, pts |-> <<>>]
    [] OTHER -> old

\* if data and isinstance(data, list): break
Accepted(kind, d) == kind = "200" /\ d.kind = "list" /\ d.pts # <<>>

\* the sleep that follows an attempt that did not break
RetrySleepMut(kind, jit) == [kind |-> "backoff", ds |-> jit]
RetrySleep(kind, jit) ==
  IF kind = "429" THEN [kind |-> "ratelimit", ds |-> RateLimitSleep]
  ELSE [kind |-> "backoff", ds |-> jit]

\* for attempt in range(max_retries): the loop ends without a break
ExhaustedMut(a) == a + 1 > max_retries
Exhausted(a) == a + 1 >= max_retries

\* for ... else: continue -- the rest of the loop body runs after a break only
RunsBodyMut(accepted) == TRUE
RunsBody(accepted) == accepted

\* if index < len(stablecoins_df) - 1, index being 0-based
DelayAfterMut(row, n) == TRUE
DelayAfter(row, n) == row - 1 < n - 1

\* if all_historical_data: sort, to_csv -- else a warning and no file
WrittenMut(records) ==
  IF records # <<>> THEN [written |-> TRUE, rows |-> records] ELSE NoOutput
Written(records) ==
  IF records # <<>> THEN [written |-> TRUE, rows |-> SortValues(records)]
  ELSE NoOutput

\* Lines 27-38 and, for an empty list of rows, 126-143.
Start ==
  /\ pc = "start"
  /\ IF ~csv.exists
       THEN /\ pc' = "raised"
            /\ error' = "FileNotFoundError"
            /\ UNCHANGED <<idx, all_historical_data, output>>
       ELSE IF MissingColumns(csv.cols) # {}
         THEN /\ pc' = "raised"
              /\ error' = "ValueError"
              /\ UNCHANGED <<idx, all_historical_data, output>>
         ELSE /\ all_historical_data' = <<>>
              /\ idx' = 1
              /\ error' = ""
              /\ IF csv.rows = <<>>
                   THEN pc' = "done" /\ output' = Written(<<>>)
                   ELSE pc' = "request" /\ UNCHANGED output
  /\ UNCHANGED <<csv, delay_between_requests, tz, remote, faults, attempt, data, stat,
                 lastSleep, validateVars, duneVars>>

\* One pass of the retry loop for the row at idx (lines 55-76) and, when
\* the loop ends with it, the rest of the body of the loop over the rows
\* (lines 77-123) and, after the last row, lines 126-143.
Request ==
  /\ pc = "request"
  /\ \E kind \in faults, jit \in JitterSamples :
       LET n == Len(csv.rows)
           ent == csv.rows[idx]
           d == Parsed(kind, idx, ent.id, data)
           accepted == Accepted(kind, d)
           over == accepted \/ Exhausted(attempt)
           nap == IF accepted THEN lastSleep ELSE RetrySleep(kind, jit)
           st1 == [stat[idx] EXCEPT !.reqs = @ + 1,
                                    !.all500 = @ /\ kind = "500",
                                    !.rl1 = IF attempt = 0 THEN kind = "429" ELSE @,
                                    !.okAt = IF accepted THEN attempt + 1 ELSE @]
           body == RunsBody(accepted)
           falsy == d.kind = "list" /\ d.pts = <<>>
           res == IF body /\ d.kind = "list"
                    THEN ProcessPoints(d.pts, 1, ent, tz, d.from, all_historical_data)
                    ELSE [all_historical_data |-> all_historical_data, exc |-> ""]
           exc == IF body /\ d.kind = "unbound" THEN "UnboundLocalError"
                  ELSE res.exc
           delayed == body /\ ~falsy /\ exc = "" /\ DelayAfter(idx, n)
           outcome == IF exc # "" THEN "aborted"
                      ELSE IF ~body THEN "gaveup"
                      ELSE IF falsy THEN "nodata"
                      ELSE "collected"
       IN /\ data' = d
          /\ IF ~over
               THEN /\ attempt' = attempt + 1
                    /\ lastSleep' = nap
                    /\ stat' = [stat EXCEPT ![idx] = st1]
                    /\ UNCHANGED <<pc, idx, all_historical_data, output, error>>
               ELSE /\ attempt' = 0
                    /\ stat' = [stat EXCEPT ![idx] =
                                  [st1 EXCEPT !.outcome = outcome,
                                              !.delays = IF delayed THEN 1 ELSE 0]]
                    /\ lastSleep' = IF delayed
                                      THEN [kind |-> "delay", ds |-> delay_between_requests]
                                      ELSE nap
                    /\ IF exc # ""
                         THEN /\ pc' = "raised"
                              /\ error' = exc
                              /\ UNCHANGED <<idx, all_historical_data, output>>
                         ELSE /\ all_historical_data' = res.all_historical_data
                              /\ idx' = idx + 1
                              /\ error' = ""
                              /\ IF idx = n
                                   THEN pc' = "done" /\ output' = Written(res.all_historical_data)
                                   ELSE pc' = "request" /\ UNCHANGED output
  /\ UNCHANGED <<csv, delay_between_requests, tz, remote, faults, validateVars, duneVars>>

Next == Start \/ Request

\* the points of the charting endpoint in the runs of the retry protocol
\* (2024-11-03 00:00, 05:30 and 06:00 UTC, and 2024-11-04 00:00 UTC)
T0 == FallBack2024 - 21600
T1 == FallBack2024 - 1800
T2 == FallBack2024
T3 == FallBack2024 + 64800
GoodPoint(ts, c, b) == Point(J("int", ts), Map(Num(c)), Map(Num(b)))
DefaultRemote ==
  [id \in EntityIds |->
     IF id = 1 THEN <<GoodPoint(T0, 1504, 2996)>>
     ELSE <<GoodPoint(T0, 700, 0), GoodPoint(T3, 804, 12)>>]

InputFiles(rowLists) ==
  {[exists |-> TRUE, cols |-> c, rows |-> r] :
      c \in SUBSET required_columns, r \in rowLists}
    \cup {[exists |-> FALSE, cols |-> {}, rows |-> <<>>]}

IdleValidate ==
  /\ vfile = [io |-> "missing", cols |-> {}, cells |-> [c \in {} |-> "text"]]
  /\ vpc = "idle"
  /\ vret = "none"

IdleDune ==
  /\ USE_LATEST_RESULT = TRUE
  /\ qpc = "idle"
  /\ job = "none"
  /\ status = "none"
  /\ polls = 0
  /\ slept = 0
  /\ query_results = "none"
  /\ qerror = ""

IdleOthers == IdleValidate /\ IdleDune

InitRun ==
  /\ pc = "start"
  /\ idx = 0
  /\ attempt = 0
  /\ data = Unbound
  /\ all_historical_data = <<>>
  /\ output = NoOutput
  /\ error = ""
  /\ stat = [i \in 1..Len(csv.rows) |-> NewStat]
  /\ lastSleep = NoSleep

\* The retry protocol: every kind of response, the endpoint's data fixed.
Init ==
  /\ csv \in InputFiles(SeqsUpTo(Entities, MaxEntities))
  /\ delay_between_requests \in {DefaultDelay, MainDelay}
  /\ tz = "UTC"
  /\ remote = DefaultRemote
  /\ faults = ResponseKinds
  /\ InitRun
  /\ IdleOthers

Spec == Init /\ [][Next]_vars

\* Normalization: the endpoint's data for entity 1 is any list of at most
\* MaxPoints of these points, every request is answered with it.
BadDate(t) == Point(J(t, 0), Map(Num(1504)), Map(Num(2996)))
NormPoints ==
  {GoodPoint(T0, 1504, 2996),
   Point(J("int", T1), NoHolder, NullHolder),
   Point(J("int", T1), Map(Num(-1504)), Map(Num(0))),
   Point(J("int", T1), EmptyMap, Map(Absent)),
   Point(J("int", T1), Map(Null), Map(Num(4))),
   Point(J("int", T1), Map(J("nan", 0)), Map(J("inf", 0))),
   BadDate("absent"), BadDate("null"), BadDate("str"), BadDate("int_y10k"),
   BadDate("int_huge"),
   Point(J("int", T1), Scalar, Map(Num(2996))),
   Point(J("int", T1), Map(J("str", 0)), Map(Num(2996))),
   Point(J("int", T1), Map(Num(1504)), Map(J("list", 0)))}

ValidFiles(rowLists) ==
  {[exists |-> TRUE, cols |-> required_columns, rows |-> r] : r \in rowLists}

InitNorm ==
  /\ csv \in ValidFiles(SeqsUpTo(Entities, MaxEntities))
  /\ delay_between_requests = DefaultDelay
  /\ tz = "UTC"
  /\ remote \in {[id \in EntityIds |-> IF id = 1 THEN p ELSE DefaultRemote[id]] :
                    p \in SeqsUpTo(NormPoints, MaxPoints)}
  /\ faults = {"200"}
  /\ InitRun
  /\ IdleOthers

SpecNorm == InitNorm /\ [][Next]_vars

\* Sorting: each entity's data is any list of at most MaxPoints of these
\* points, whose dates lie around the end of daylight time (entity 2 has
\* no point of the day after); the machine is in UTC or in
\* America/New_York.
SortPoints(id) ==
  {GoodPoint(T1, 1504, 0), GoodPoint(T2, 1504, 0)}
    \cup (IF id = 1 THEN {GoodPoint(T3, 1504, 0)} ELSE {})
Zones == {"UTC", "America/New_York"}

InitSort ==
  /\ csv \in ValidFiles(SeqsUpTo(Entities, MaxEntities))
  /\ delay_between_requests = DefaultDelay
  /\ tz \in Zones
  /\ remote \in {f \in [EntityIds -> SeqsUpTo(SortPoints(1), MaxPoints)] :
                    \A id \in EntityIds :
                      \A k \in 1..Len(f[id]) : f[id][k] \in SortPoints(id)}
  /\ faults = {"200"}
  /\ InitRun
  /\ IdleOthers

SpecSort == InitSort /\ [][Next]_vars

\* --------------------------------------------------- validate_csv_structure
expected_columns ==
  {"stablecoin_id", "stablecoin_name", "stablecoin_symbol", "date",
   "circulating_usd", "bridged_usd", "created_at"}
\* the columns whose cells the function parses, and what a column holds
TypedColumns == {"date", "circulating_usd", "bridged_usd", "created_at"}
CellKinds == {"datetime", "number", "text"}

\* pd.read_csv(csv_path): "" or the exception it raises
ReadError(f) ==
  CASE f.io = "missing" -> "FileNotFoundError"
    [] f.io = "unreadable" -> "PermissionError"
    [] f.io = "empty" -> "EmptyDataError"
    [] OTHER -> ""

\* pd.to_datetime takes date texts and numbers; pd.to_numeric numbers only
ToDatetimeOk(kind) == kind \in {"datetime", "number"}
ToNumericOk(kind) == kind = "number"
\* the four conversions of lines 178-181 raise nothing
TypesOk(f) ==
  /\ ToDatetimeOk(f.cells["date"])
  /\ ToNumericOk(f.cells["circulating_usd"])
  /\ ToNumericOk(f.cells["bridged_usd"])
  /\ ToDatetimeOk(f.cells["created_at"])

\* except Exception as e: logger.error(...); return False  (lines 189-191)
OuterHandlerMut(exc) == "raised"
OuterHandler(exc) == "False"

\* the value validate_csv_structure(csv_path) comes to
ValidateResult(f) ==
  IF ReadError(f) # "" THEN OuterHandler(ReadError(f))
  ELSE IF expected_columns \ f.cols # {} THEN "False"
  ELSE IF ~TypesOk(f) THEN "False"
  ELSE "True"

validate_csv_structure ==
  /\ vpc = "call"
  /\ vret' = ValidateResult(vfile)
  /\ vpc' = "returned"
  /\ UNCHANGED <<vfile, fetchVars, duneVars>>

NextValidate == validate_csv_structure

IdleFetch ==
  /\ csv = [exists |-> FALSE, cols |-> {}, rows |-> <<>>]
  /\ delay_between_requests = DefaultDelay
  /\ tz = "UTC"
  /\ remote = DefaultRemote
  /\ faults = {}
  /\ pc = "idle"
  /\ idx = 0
  /\ attempt = 0
  /\ data = Unbound
  /\ all_historical_data = <<>>
  /\ output = NoOutput
  /\ error = ""
  /\ stat = <<>>
  /\ lastSleep = NoSleep

\* the files validate_csv_structure can be given: absent, unreadable,
\* empty, or a table with some of the columns; every column that is
\* parsed holds date texts, numbers or other text
InitValidate ==
  /\ vfile \in
       {[io |-> i, cols |-> expected_columns, cells |-> [c \in TypedColumns |-> "text"]] :
          i \in {"missing", "unreadable", "empty"}}
       \cup {[io |-> "ok", cols |-> c, cells |-> k] :
               c \in SUBSET expected_columns, k \in [TypedColumns -> CellKinds]}
  /\ vpc = "call"
  /\ vret = "none"
  /\ IdleFetch
  /\ IdleDune

SpecValidate == InitValidate /\ [][NextValidate]_vars

\* ------------------------------------------- the Dune script (src/dune/q.py)
\* the states the Dune API reports for an execution
Completed == "QUERY_STATE_COMPLETED"
Unsettled == {"QUERY_STATE_PENDING", "QUERY_STATE_EXECUTING"}
TerminalFailure ==
  {"QUERY_STATE_FAILED", "QUERY_STATE_CANCELLED", "QUERY_STATE_EXPIRED"}

\* the remote execution moves on by itself, and stays once settled
JobStep ==
  /\ job \in Unsettled
  /\ job' \in (IF job = "QUERY_STATE_PENDING"
                  THEN {"QUERY_STATE_EXECUTING"} ELSE {})
               \cup {Completed} \cup TerminalFailure
  /\ UNCHANGED <<USE_LATEST_RESULT, qpc, status, polls, slept, query_results,
                 qerror, fetchVars, validateVars>>

\* if USE_LATEST_RESULT: dune.get_latest_result(QUERY_ID)  (lines 13-23)
LatestResult ==
  /\ qpc = "start"
  /\ USE_LATEST_RESULT
  /\ query_results' = "cached rows"
  /\ qpc' = "done"
  /\ UNCHANGED <<USE_LATEST_RESULT, job, status, polls, slept, qerror,
                 fetchVars, validateVars>>

\* execution_id = execute_query(QUERY_ID, API_KEY)  (q.py 30,
\* dune_modular.py 19-32): raises unless the response is a 200
execute_query ==
  /\ qpc = "start"
  /\ ~USE_LATEST_RESULT
  /\ \E ok \in BOOLEAN :
       IF ok
         THEN /\ job' = "QUERY_STATE_PENDING"
              /\ qpc' = "poll"
              /\ UNCHANGED qerror
         ELSE /\ qpc' = "raised"
              /\ qerror' = "Failed to execute query"
              /\ UNCHANGED job
  /\ UNCHANGED <<USE_LATEST_RESULT, status, polls, slept, query_results,
                 fetchVars, validateVars>>

\* if status["state"] == "QUERY_STATE_COMPLETED": break
LoopExitsMut(state) == state \notin Unsettled
LoopExits(state) == state = Completed

\* One pass of "while True" up to the sleep: get_execution_status
\* (raises unless the response is a 200), then the test of the state.
\* polls counts the status responses, up to MaxPolls.
get_execution_status ==
  /\ qpc = "poll"
  /\ \E ok \in BOOLEAN :
       IF ok
         THEN /\ status' = job
              /\ polls' = IF polls < MaxPolls THEN polls + 1 ELSE polls
              /\ qpc' = IF LoopExits(job) THEN "results" ELSE "sleep"
              /\ UNCHANGED qerror
         ELSE /\ qpc' = "raised"
              /\ qerror' = "Failed to get execution status"
              /\ UNCHANGED <<status, polls>>
  /\ UNCHANGED <<USE_LATEST_RESULT, job, slept, query_results, fetchVars,
                 validateVars>>

\* time.sleep(5); slept is the time slept in the loop, up to MaxPolls sleeps
Sleep ==
  /\ qpc = "sleep"
  /\ slept' = IF slept < MaxPolls * PollInterval THEN slept + PollInterval ELSE slept
  /\ qpc' = "poll"
  /\ UNCHANGED <<USE_LATEST_RESULT, job, status, polls, query_results, qerror,
                 fetchVars, validateVars>>

\* query_results = get_execution_results(execution_id, API_KEY) (q.py 40,
\* dune_modular.py 49-62) and the rest of the script
get_execution_results ==
  /\ qpc = "results"
  /\ \E ok \in BOOLEAN :
       IF ok
         THEN /\ query_results' = "fresh rows"
              /\ qpc' = "done"
              /\ UNCHANGED qerror
         ELSE /\ qpc' = "raised"
              /\ qerror' = "Failed to get execution results"
              /\ UNCHANGED query_results
  /\ UNCHANGED <<USE_LATEST_RESULT, job, status, polls, slept, fetchVars,
                 validateVars>>

Script ==
  \/ LatestResult
  \/ execute_query
  \/ get_execution_status
  \/ Sleep
  \/ get_execution_results

NextDune == Script \/ JobStep

InitDune ==
  /\ USE_LATEST_RESULT \in BOOLEAN
  /\ qpc = "start"
  /\ job = "none"
  /\ status = "none"
  /\ polls = 0
  /\ slept = 0
  /\ query_results = "none"
  /\ qerror = ""
  /\ IdleFetch
  /\ IdleValidate

\* The script is one thread that runs on: each of its steps is taken when
\* it can be.  Nothing makes the remote execution settle.
SpecDune == InitDune /\ [][NextDune]_vars /\ WF_vars(Script)

\* ------------------------------------------------------------------ claims
Rows == 1..Len(csv.rows)
\* the row's pass of the loop over the rows has ended and the loop moved on
Passed(i) == idx > i
\* the number of rows of a table that carry an entity id
RECURSIVE CountId(_, _)
CountId(rows, id) ==
  IF rows = <<>> THEN 0
  ELSE (IF Head(rows).stablecoin_id = id THEN 1 ELSE 0) + CountId(Tail(rows), id)
\* the number of points of the payloads accepted for the rows of an id
RECURSIVE AcceptedPoints(_, _)
AcceptedPoints(i, id) ==
  IF i = 0 THEN 0
  ELSE (IF csv.rows[i].id = id /\ stat[i].okAt > 0
          THEN Len(remote[id]) ELSE 0) + AcceptedPoints(i - 1, id)

\* C1: an entity whose endpoint answers every request with HTTP 500 is
\* requested exactly 3 times and then skipped; the run goes on to the next
\* row; at the end every row has been requested, the output holds no record
\* of the failing entity (unless another row of the same id succeeded) and
\* holds every point of the rows that were answered with valid data.
C1_Http500SkippedAfterThree ==
  \A i \in Rows :
    (stat[i].all500 /\ stat[i].reqs > 0) =>
      /\ stat[i].reqs <= max_retries
      /\ (stat[i].reqs < max_retries) = (stat[i].outcome = "pending")
      /\ stat[i].reqs = max_retries =>
           /\ stat[i].outcome = "gaveup"
           /\ Passed(i)
           /\ pc = "raised" => (idx > i /\ stat[idx].outcome = "aborted")
           /\ (i < Len(csv.rows) /\ idx = i + 1 /\ stat[idx].reqs = 0)
                => (pc = "request" /\ attempt = 0)
           /\ pc = "done" =>
                /\ \A j \in Rows : stat[j].reqs >= 1
                /\ \A id \in EntityIds :
                     CountId(output.rows, id) = AcceptedPoints(Len(csv.rows), id)
                /\ (\A j \in Rows : csv.rows[j].id = csv.rows[i].id => stat[j].okAt = 0)
                     => CountId(output.rows, csv.rows[i].id) = 0
C1_Witness ==
  /\ pc = "done"
  /\ Len(csv.rows) = 2
  /\ stat[1].all500 /\ stat[1].reqs = 3
  /\ stat[2].outcome = "collected"
  /\ csv.rows[1].id # csv.rows[2].id
  /\ output.written

\* C2: after a first response of HTTP 429 the retry loop is at its second
\* attempt and the sleep before the second request is the fixed 10 s; when
\* the second response is a 200 with a non-empty list, no third request is
\* issued and every point of the payload is in the accumulator.
C2_RateLimitedThenAccepted ==
  /\ (pc = "request" /\ attempt = 1 /\ stat[idx].rl1) =>
        /\ lastSleep = [kind |-> "ratelimit", ds |-> RateLimitSleep]
        /\ stat[idx].reqs = 1
  /\ \A i \in Rows :
       /\ stat[i].rl1 => stat[i].reqs <= max_retries
       /\ (stat[i].rl1 /\ stat[i].okAt = 2) =>
            /\ stat[i].reqs = 2
            /\ stat[i].outcome = "collected"
            /\ Passed(i)
            /\ \A k \in 1..Len(remote[csv.rows[i].id]) :
                 \E r \in 1..Len(all_historical_data) :
                   /\ all_historical_data[r].src_row = i /\ all_historical_data[r].src_pt = k
                   /\ all_historical_data[r].stablecoin_id = csv.rows[i].id
C2_Witness ==
  \E i \in Rows : stat[i].rl1 /\ stat[i].okAt = 2 /\ all_historical_data # <<>>

\* C3: when the input file lacks one of id, name, symbol, the call raises
\* to its caller, no request has been issued and no output is written.
C3_MissingColumnsFailFast ==
  (csv.exists /\ required_columns \ csv.cols # {}) =>
     /\ pc \in {"start", "raised"}
     /\ pc = "raised" => error = "ValueError"
     /\ \A i \in Rows : stat[i].reqs = 0
     /\ ~output.written
     /\ all_historical_data = <<>>
C3_Witness ==
  /\ pc = "raised"
  /\ csv.exists
  /\ csv.cols = {"id", "symbol"}
  /\ Len(csv.rows) = 2

\* C8 as stated: every row but the last, whatever its outcome, is followed
\* by exactly one sleep of delay_between_requests before the next row's
\* first request, and the last row by none.
C8_Original ==
  /\ \A i \in Rows :
       Passed(i) => stat[i].delays = (IF i < Len(csv.rows) THEN 1 ELSE 0)
  /\ (pc = "request" /\ attempt = 0 /\ idx > 1) =>
        lastSleep = [kind |-> "delay", ds |-> delay_between_requests]

\* C8 amended: a row but the last whose retry loop ended with an accepted
\* payload is followed by exactly one sleep of delay_between_requests
\* before the next row's first request; a row skipped after its attempts
\* were exhausted is followed by none (the last sleep before the next
\* request is the backoff of its last attempt); the last row by none.
C8_DelayAfterCollectedRows ==
  /\ \A i \in Rows :
       /\ stat[i].delays =
            (IF stat[i].outcome = "collected" /\ i < Len(csv.rows) THEN 1 ELSE 0)
       /\ Passed(i) => stat[i].outcome \in {"collected", "gaveup"}
  /\ (pc = "request" /\ attempt = 0 /\ idx > 1) =>
        IF stat[idx - 1].outcome = "collected"
          THEN lastSleep = [kind |-> "delay", ds |-> delay_between_requests]
          ELSE lastSleep.kind \in {"backoff", "ratelimit"}
  /\ pc = "done" => (lastSleep.kind = "delay" => Len(csv.rows) > 1)
C8_Witness ==
  /\ pc = "done"
  /\ Len(csv.rows) = 2
  /\ stat[1].outcome = "gaveup" /\ stat[1].delays = 0
  /\ stat[2].outcome = "collected" /\ stat[2].delays = 0

\* C10: every record of the accumulator carries the id, name and symbol of
\* the row whose own request returned the payload the record was built
\* from, also after later rows failed, returned invalid JSON or raised.
C10_RecordsCarryOwnEntity ==
  \A r \in 1..Len(all_historical_data) :
    LET rec == all_historical_data[r]
    IN /\ rec.src_row \in Rows
       /\ rec.stablecoin_id = csv.rows[rec.src_row].id
       /\ rec.stablecoin_name = csv.rows[rec.src_row].name
       /\ rec.stablecoin_symbol = csv.rows[rec.src_row].symbol
       /\ stat[rec.src_row].okAt > 0
C10_Witness ==
  /\ pc = "done"
  /\ Len(csv.rows) = 2
  /\ csv.rows[1].id # csv.rows[2].id
  /\ stat[1].outcome = "collected"
  /\ stat[2].outcome = "gaveup"
  /\ data.kind = "list" /\ data.from = 1
  /\ all_historical_data # <<>>

\* the point a record was built from, and the amount under one of its keys
SourcePoint(r) == remote[r.stablecoin_id][r.src_pt]
\* a point can be normalized: the body of the loop over the points ends
\* in no exception
Normalizable(p) ==
  /\ p.date.t = "int"
  /\ p.circ.t # "scalar" /\ p.brid.t # "scalar"
  /\ ~(p.circ.t = "map" /\ p.circ.peg.t \in {"str", "list"})
  /\ ~(p.brid.t = "map" /\ p.brid.peg.t \in {"str", "list"})

\* C4: a point that fails normalization is skipped alone: the run does not
\* abort, and for every row whose payload was accepted the loop moves on
\* and every point of the payload that can be normalized has its record.
C4_PointFailureSkipsOnlyThePoint ==
  /\ pc # "raised"
  /\ \A i \in Rows :
       (stat[i].okAt > 0) =>
          /\ Passed(i)
          /\ \A k \in 1..Len(remote[csv.rows[i].id]) :
               Normalizable(remote[csv.rows[i].id][k]) =>
                 \E r \in 1..Len(all_historical_data) :
                   /\ all_historical_data[r].src_row = i
                   /\ all_historical_data[r].src_pt = k

\* C5 as stated: the two amounts of every record of the accumulator are
\* non-negative finite numbers.
NonNegativeFinite(a) == a.t = "num" /\ a.v >= 0
C5_Original ==
  \A r \in 1..Len(all_historical_data) :
    /\ NonNegativeFinite(all_historical_data[r].circulating_usd)
    /\ NonNegativeFinite(all_historical_data[r].bridged_usd)

\* C5 amended: an amount of a record is 0.00 when the source field (the
\* mapping or its peggedUSD) is absent, null, empty or zero, and otherwise
\* the source peggedUSD rounded to 2 decimals: non-negative and finite
\* when the source is, negative when it is negative (below half a cent:
\* zero), NaN or infinite when it is NaN or infinite.
AmountFollowsSource(h, a) ==
  IF h.t # "map" \/ h.peg.t \in {"absent", "null"} \/ h.peg = Num(0)
    THEN a = Cents(0)
  ELSE IF h.peg.t = "num"
    THEN /\ a.t = "num"
         /\ 10 * a.v - h.peg.v <= 5 /\ h.peg.v - 10 * a.v <= 5
         /\ (h.peg.v >= 0) => NonNegativeFinite(a)
         /\ (h.peg.v < 0) => a.v <= 0
  ELSE a.t = h.peg.t
C5_AmountsFollowSource ==
  \A r \in 1..Len(all_historical_data) :
    /\ AmountFollowsSource(SourcePoint(all_historical_data[r]).circ,
                           all_historical_data[r].circulating_usd)
    /\ AmountFollowsSource(SourcePoint(all_historical_data[r]).brid,
                           all_historical_data[r].bridged_usd)
C5_Witness ==
  /\ pc = "done"
  /\ \E r \in 1..Len(all_historical_data) :
       /\ SourcePoint(all_historical_data[r]).circ = NoHolder
       /\ all_historical_data[r].circulating_usd = Cents(0)
  /\ \E r \in 1..Len(all_historical_data) :
       /\ SourcePoint(all_historical_data[r]).circ = Map(Num(-1504))
       /\ all_historical_data[r].circulating_usd = Cents(-150)

\* the rows of the output are the records of the accumulator, each as often
SameRecords(a, b) ==
  /\ Len(a) = Len(b)
  /\ \A i \in 1..Len(a) :
       Cardinality({j \in 1..Len(a) : a[j] = a[i]})
         = Cardinality({j \in 1..Len(b) : b[j] = a[i]})
Timestamp(r) == SourcePoint(r).date.v
SymbolNotAfter(a, b) ==
  ~StrLess(SymCodes(b.stablecoin_symbol), SymCodes(a.stablecoin_symbol))

\* C6 as stated: the rows written are the accumulated records in
\* chronological order of their dates, ties by symbol ascending.
C6_Original ==
  output.written =>
    /\ SameRecords(all_historical_data, output.rows)
    /\ \A i \in 1..Len(output.rows) : \A j \in 1..Len(output.rows) :
         i < j =>
           \/ Timestamp(output.rows[i]) < Timestamp(output.rows[j])
           \/ /\ Timestamp(output.rows[i]) = Timestamp(output.rows[j])
              /\ SymbolNotAfter(output.rows[i], output.rows[j])

\* C6 amended: the rows written are the accumulated records ordered by the
\* text of the date column ('YYYY-MM-DD HH:MM:SS' in local time), ties by
\* symbol ascending; that is the chronological order of the timestamps
\* when the local zone keeps one UTC offset (as UTC does).
C6_SortedByDateText ==
  (pc = "done" /\ all_historical_data # <<>>) =>
    /\ output.written
    /\ SameRecords(all_historical_data, output.rows)
    /\ \A i \in 1..Len(output.rows) : \A j \in 1..Len(output.rows) :
         i < j =>
           /\ \/ StrLess(output.rows[i].date, output.rows[j].date)
              \/ /\ output.rows[i].date = output.rows[j].date
                 /\ SymbolNotAfter(output.rows[i], output.rows[j])
           /\ tz = "UTC" =>
                \/ Timestamp(output.rows[i]) < Timestamp(output.rows[j])
                \/ /\ Timestamp(output.rows[i]) = Timestamp(output.rows[j])
                   /\ SymbolNotAfter(output.rows[i], output.rows[j])
C6_Witness ==
  /\ output.written
  /\ Len(output.rows) = 4
  /\ all_historical_data # output.rows
  /\ output.rows[1].src_row # output.rows[2].src_row
  /\ output.rows[1].date = output.rows[2].date
  /\ output.rows[3].src_row # output.rows[4].src_row
  /\ output.rows[2].date # output.rows[3].date
  /\ output.rows[2].src_row # output.rows[3].src_row

\* C7 as stated: false, without raising, for a missing column or a column
\* that fails to parse; an I/O-level error propagates as an exception.
C7_Original ==
  vpc = "returned" =>
    /\ (vfile.io = "ok" /\ (expected_columns \ vfile.cols # {} \/ ~TypesOk(vfile)))
         => vret = "False"
    /\ vfile.io # "ok" => vret = "raised"

\* C7 amended: validate_csv_structure raises nothing: it returns false for
\* a missing column, for a column that fails to parse, and also when the
\* file is absent, unreadable or empty; it returns true otherwise.
C7_NeverRaises ==
  vpc = "returned" =>
    /\ vret \in {"True", "False"}
    /\ vret = "True" <=>
         /\ vfile.io = "ok"
         /\ expected_columns \subseteq vfile.cols
         /\ vfile.cells["date"] # "text" /\ vfile.cells["created_at"] # "text"
         /\ vfile.cells["circulating_usd"] = "number"
         /\ vfile.cells["bridged_usd"] = "number"
C7_Witness ==
  /\ vpc = "returned"
  /\ vfile.io = "missing"
  /\ vret = "False"

\* C9: on the fresh-execution path results are fetched only after a status
\* response reported the completed state; once the execution has settled in
\* a terminal failure state the script never leaves the polling loop for
\* the results, and as long as the status requests succeed it polls and
\* sleeps 5 s again and again.
C9_PollsUntilCompleted ==
  /\ [](~USE_LATEST_RESULT =>
          /\ qpc \in {"results", "done"} => status = Completed
          /\ query_results # "none" => status = Completed
          /\ job \in TerminalFailure =>
               (qpc \in {"poll", "sleep", "raised"} /\ query_results = "none"))
  /\ (job \in TerminalFailure /\ qpc = "poll") ~> (qpc \in {"sleep", "raised"})
  /\ (job \in TerminalFailure /\ qpc = "sleep") ~> (qpc = "poll")
C9_Witness ==
  /\ ~USE_LATEST_RESULT
  /\ job = "QUERY_STATE_FAILED"
  /\ status = "QUERY_STATE_FAILED"
  /\ qpc = "sleep"
  /\ polls = MaxPolls
  /\ slept = (MaxPolls - 1) * PollInterval

====
